---- MODULE Spec2Model ----
(***************************************************************************)
(* Model of the rating/review backend: the Flask handlers of app.py, the   *)
(* request schema of schemas.py, the reviews table of database.py and the  *)
(* text-generation orchestrator of llm_service.py.                         *)
(*                                                                         *)
(* Strings are modelled by their shape, not their characters: a text is a  *)
(* record [kind, lead, body, trail] where lead and trail count the         *)
(* whitespace characters before and after the part that str.strip() keeps, *)
(* body is the length of that part, and kind says where the characters     *)
(* come from (the client, a provider, or one of the hardcoded strings).    *)
(* A whitespace-only text has body = 0 and all its characters in lead.     *)
(*                                                                         *)
(* The reviews table is a set of rows under its declared constraints: a    *)
(* statement raises only when it violates one (a taken primary key).       *)
(* Outages of the database server are not modelled. A submission touches   *)
(* the table once, at its commit, so it is one step also where requests    *)
(* run concurrently; GET /api/admin/reviews issues three queries and is    *)
(* modelled both as one step and query by query.                           *)
(***************************************************************************)
EXTENDS Integers, Sequences, FiniteSets

VARIABLES
    use_gemini,      \* LLMService.use_gemini, fixed at construction
    store,           \* the rows of the reviews table
    resp,            \* the response of the request that finished last
    provider_calls,  \* provider calls made by the request that finished last
    issued,          \* review_ids returned in 201 responses so far
    admin,           \* a GET /api/admin/reviews in progress (its local variables)
    gen              \* the orchestrator call made last (inputs and result)

vars == <<use_gemini, store, resp, provider_calls, issued, admin, gen>>

\* ------------------------------------------------------------------ bounds

\* Rows the reviews table may hold before submissions are cut off.
MaxReviews == 3

\* The same where only submissions are made, under every behaviour of the
\* providers.
MaxSubmitted == 1

\* ---------------------------------------------------------------- constants

MAX_REVIEW_LENGTH == 5000
MIN_REVIEW_LENGTH == 1
MinRating == 1
MaxRating == 5
UserResponseCap == 500
SummaryCap == 300
ActionsCap == 500
SummaryExcerpt == 200

\* ------------------------------------------------------------------- texts

Min(a, b) == IF a < b THEN a ELSE b

Text(kind, lead, body, trail) ==
    [kind |-> kind, lead |-> lead, body |-> body, trail |-> trail]

\* len(s)
Len_(t) == t.lead + t.body + t.trail

\* s.strip()
Strip(t) == [t EXCEPT !.lead = 0, !.trail = 0]

\* s[:n]
Slice(t, n) ==
    LET l == Min(t.lead, n)
        b == Min(t.body, n - l)
        r == Min(t.trail, n - l - b)
    IN  [t EXCEPT !.lead = l, !.body = b, !.trail = r]

\* bool(s): a non-empty string is truthy
Truthy(t) == Len_(t) > 0

\* ------------------------------------------------- hardcoded strings (lengths)

AckFallbackLen == 174
SummaryPrefixLen == 27
SummarySuffixLen == 84
ActionsLowLen == 194
ActionsMidLen == 155
ActionsHighLen == 202
AppAckFallbackLen == 54
AppSummaryFallbackLen == 13
AppActionsFallbackLen == 29

NoText == Text("none", 0, 0, 0)

\* -------------------------------------------------------------- providers

\* What one provider does with one prompt: it raises (HTTP error, timeout,
\* quota, a reply without text) or it replies with a text.
Raises == [raised |-> TRUE, text |-> NoText]
Replies(t) == [raised |-> FALSE, text |-> t]

\* The result of a call: a returned text or a raised exception.
Return(t) == [raised |-> FALSE, text |-> t]
Raise == [raised |-> TRUE, text |-> NoText]

\* Fault variant of the Gemini call: an empty reply is returned as it is.
call_gemini_ReturningEmpty(g) ==
    IF g.raised THEN Raise ELSE Return(Strip(g.text))

\* LLMService._call_gemini: the stripped text when it is non-empty, otherwise
\* an exception (an empty reply is raised and re-raised by the except clause).
call_gemini(g) ==
    IF g.raised THEN Raise
    ELSE IF Truthy(Strip(g.text)) THEN Return(Strip(g.text))
    ELSE Raise

\* LLMService._call_openrouter: the stripped content, whatever it is.
call_openrouter(o) ==
    IF o.raised THEN Raise ELSE Return(Strip(o.text))

\* LLMService._call_llm, with the providers it called, in call order.
call_llm(ug, g, o) ==
    IF ug
    THEN IF ~call_gemini(g).raised
         THEN [raised |-> FALSE, text |-> call_gemini(g).text,
               calls |-> <<"gemini">>]
         ELSE [raised |-> call_openrouter(o).raised,
               text |-> call_openrouter(o).text,
               calls |-> <<"gemini", "openrouter">>]
    ELSE [raised |-> call_openrouter(o).raised,
          text |-> call_openrouter(o).text,
          calls |-> <<"openrouter">>]

\* The f-string of generate_summary's except clause.
SummaryFallback(rating, review_text) ==
    Text("summary_fallback", 0,
         SummaryPrefixLen + Len_(Slice(review_text, SummaryExcerpt))
             + SummarySuffixLen, 0)

\* The three strings of generate_recommended_actions' except clause.
ActionsFallback(rating) ==
    IF rating <= 2 THEN Text("actions_low", 0, ActionsLowLen, 0)
    ELSE IF rating = 3 THEN Text("actions_mid", 0, ActionsMidLen, 0)
    ELSE Text("actions_high", 0, ActionsHighLen, 0)

\* LLMService.generate_user_response
generate_user_response(ug, rating, review_text, g, o) ==
    LET r == call_llm(ug, g, o)
    IN  [raised |-> FALSE,
         text |-> IF r.raised THEN Text("ack_fallback", 0, AckFallbackLen, 0)
                  ELSE Slice(r.text, UserResponseCap),
         calls |-> r.calls]

\* LLMService.generate_summary
generate_summary(ug, rating, review_text, g, o) ==
    LET r == call_llm(ug, g, o)
    IN  [raised |-> FALSE,
         text |-> IF r.raised THEN SummaryFallback(rating, review_text)
                  ELSE Slice(r.text, SummaryCap),
         calls |-> r.calls]

\* LLMService.generate_recommended_actions
generate_recommended_actions(ug, rating, review_text, g, o) ==
    LET r == call_llm(ug, g, o)
    IN  [raised |-> FALSE,
         text |-> IF r.raised THEN ActionsFallback(rating)
                  ELSE Slice(r.text, ActionsCap),
         calls |-> r.calls]

\* ------------------------------------------------------------ reviews table

NoId == 0

Review(review_id, rating, review_text, ai_summary, ai_actions, created_at) ==
    [review_id |-> review_id, rating |-> rating, review_text |-> review_text,
     ai_summary |-> ai_summary,
     ai_recommended_actions |-> ai_actions,
     created_at |-> created_at]

Ids(table) == {r.review_id : r \in table}

\* Column default of review_id, str(uuid.uuid4()): an identifier no row has.
\* Identifiers are opaque, so the least unused number stands for it.
NewReviewId(table) ==
    CHOOSE i \in 1..(Cardinality(table) + 1) :
        i \notin Ids(table) /\ \A j \in 1..(i - 1) : j \in Ids(table)

\* Column default of created_at, datetime.utcnow(): later than every row's.
UtcNow(table) ==
    IF table = {} THEN 1
    ELSE 1 + (CHOOSE t \in {r.created_at : r \in table} :
                  \A r \in table : r.created_at <= t)

\* Fault variant of the save: the new row replaces the rows with its rating.
Insert_ReplacingSameRating(table, row) ==
    [raised |-> FALSE,
     table |-> {r \in table : r.rating # row.rating} \cup {row}]

\* db.add(review); db.commit(); db.refresh(review): the INSERT raises an
\* IntegrityError when the primary key is taken, and the except clause rolls
\* back, leaving the table as it was.
Insert(table, row) ==
    IF row.review_id \in Ids(table)
    THEN [raised |-> TRUE, table |-> table]
    ELSE [raised |-> FALSE, table |-> table \cup {row}]

\* Review.to_dict
to_dict(r) ==
    [review_id |-> r.review_id, rating |-> r.rating,
     review_text |-> r.review_text,
     ai_summary |-> r.ai_summary,
     ai_recommended_actions |-> r.ai_recommended_actions,
     created_at |-> <<"isoformat", r.created_at>>]

\* db.query(Review).order_by(Review.created_at.desc()).all()
RECURSIVE OrderByCreatedDesc(_)
OrderByCreatedDesc(table) ==
    IF table = {} THEN <<>>
    ELSE LET newest == CHOOSE r \in table :
                           \A q \in table : q.created_at <= r.created_at
         IN  <<newest>> \o OrderByCreatedDesc(table \ {newest})

\* db.query(Review.rating, func.count(...)).group_by(Review.rating).all(),
\* as the dict built from it
GroupByRating(table) ==
    [k \in {r.rating : r \in table} |->
        Cardinality({r \in table : r.rating = k})]

RECURSIVE SumRatings(_)
SumRatings(table) ==
    IF table = {} THEN 0
    ELSE LET r == CHOOSE q \in table : TRUE
         IN  r.rating + SumRatings(table \ {r})

\* db.query(func.avg(Review.rating)).scalar(): NULL on an empty table,
\* otherwise the quotient num / den
AvgRating(table) ==
    IF table = {} THEN [null |-> TRUE, num |-> 0, den |-> 1]
    ELSE [null |-> FALSE, num |-> SumRatings(table),
          den |-> Cardinality(table)]

\* Fault variant of the lookup: the filter is left out.
FirstById_NoFilter(table, review_id) == table

\* db.query(Review).filter(Review.review_id == review_id).first()
FirstById(table, review_id) == {r \in table : r.review_id = review_id}

\* ---------------------------------------------------------------- requests

\* The body of a POST /api/submit-review. kind is
\*   "absent"  no body; json_ctype says whether the request still declares
\*             Content-Type: application/json
\*   "falsy"   JSON that Python treats as false: {}, [], null, 0, ""
\*   "nondict" other JSON that is no object
\*   "dict"    a JSON object, with or without its two fields
Body(kind, json_ctype, has_rating, rating, has_text, review_text) ==
    [kind |-> kind, json_ctype |-> json_ctype,
     has_rating |-> has_rating, rating |-> rating,
     has_text |-> has_text, review_text |-> review_text]

DictBody(rating, review_text) ==
    Body("dict", TRUE, TRUE, rating, TRUE, review_text)

UserText(lead, body, trail) == Text("user", lead, body, trail)

\* request.get_json(): every result the installed Flask can give. Without a
\* JSON content type it returns None (Flask before 2.1) or raises 415
\* UnsupportedMediaType (2.1 and later); with one, a body that does not
\* parse raises 400 BadRequest. Both exceptions derive from Exception.
get_json(body) ==
    IF ~body.json_ctype
    THEN {[raised |-> TRUE, none |-> FALSE], [raised |-> FALSE, none |-> TRUE]}
    ELSE IF body.kind = "absent"
    THEN {[raised |-> TRUE, none |-> FALSE]}
    ELSE {[raised |-> FALSE, none |-> FALSE]}

\* Fault variant of the validator: it returns the text as sent.
validate_review_text_unstripped(v) ==
    IF ~Truthy(v) \/ ~Truthy(Strip(v))
    THEN [raised |-> TRUE, text |-> NoText]
    ELSE [raised |-> FALSE, text |-> v]

\* ReviewSubmissionRequest.validate_review_text
validate_review_text(v) ==
    IF ~Truthy(v) \/ ~Truthy(Strip(v))
    THEN [raised |-> TRUE, text |-> NoText]
    ELSE [raised |-> FALSE, text |-> Strip(v)]

\* Fault variants of the rating constraint: the lower bound taken as
\* exclusive, and the upper bound left out.
RatingFieldOk_ExclusiveMin(rating) == rating > MinRating /\ rating <= MaxRating
RatingFieldOk_NoMax(rating) == rating >= MinRating

\* Field(..., ge=1, le=5)
RatingFieldOk(rating) == rating >= MinRating /\ rating <= MaxRating

\* Field(..., min_length=1, max_length=5000), checked on the text as sent
TextFieldOk(v) ==
    Len_(v) >= MIN_REVIEW_LENGTH /\ Len_(v) <= MAX_REVIEW_LENGTH

\* ReviewSubmissionRequest(**data): raises unless data is an object whose
\* two fields are present and pass their constraints and the validator.
ReviewSubmissionRequest(data) ==
    IF /\ data.kind = "dict"
       /\ data.has_rating /\ RatingFieldOk(data.rating)
       /\ data.has_text /\ TextFieldOk(data.review_text)
       /\ ~validate_review_text(data.review_text).raised
    THEN [raised |-> FALSE, rating |-> data.rating,
          review_text |-> validate_review_text(data.review_text).text]
    ELSE [raised |-> TRUE, rating |-> 0, review_text |-> NoText]

\* ---------------------------------------------------------------- responses

\* jsonify(ReviewSubmissionResponse(...).dict()), status
SubmissionResponse(status, success, review_id, ai_response, error, body) ==
    [op |-> "submit_review", status |-> status, request |-> body,
     body |-> [success |-> success, review_id |-> review_id,
               ai_response |-> ai_response, error |-> error]]

\* What submit_review does with one request: the response, the table after
\* it, and the provider calls made. j is what get_json gave; ur, sm and ra
\* are the results of the three generate_* calls, used only when reached.
submit_review_result(table, body, j, ur, sm, ra) ==
    LET v == ReviewSubmissionRequest(body)
        ai_response == IF ur.raised
                       THEN Text("app_ack_fallback", 0, AppAckFallbackLen, 0)
                       ELSE ur.text
        ai_summary == IF sm.raised \/ ra.raised
                      THEN Text("app_summary_fallback", 0,
                                AppSummaryFallbackLen, 0)
                      ELSE sm.text
        ai_recommended_actions ==
                      IF sm.raised \/ ra.raised
                      THEN Text("app_actions_fallback", 0,
                                AppActionsFallbackLen, 0)
                      ELSE ra.text
        review == Review(NewReviewId(table), v.rating, v.review_text,
                         ai_summary, ai_recommended_actions, UtcNow(table))
        saved == Insert(table, review)
        calls == Len(ur.calls) + Len(sm.calls)
                     + (IF sm.raised THEN 0 ELSE Len(ra.calls))
        Reject(status, error) ==
            [resp |-> SubmissionResponse(status, FALSE, NoId, NoText, error,
                                         body),
             table |-> table, calls |-> 0]
    IN  IF j.raised THEN Reject(500, "Internal server error")
        ELSE IF j.none \/ body.kind = "falsy"
        THEN Reject(400, "No data provided")
        ELSE IF v.raised THEN Reject(400, "Validation error")
        ELSE IF Len_(v.review_text) > MAX_REVIEW_LENGTH
        THEN Reject(400, "Review text exceeds maximum length")
        ELSE IF Len_(Strip(v.review_text)) < MIN_REVIEW_LENGTH
        THEN Reject(400, "Review text cannot be empty")
        ELSE IF saved.raised
        THEN [resp |-> SubmissionResponse(500, FALSE, NoId, NoText,
                                          "Failed to save review", body),
              table |-> table, calls |-> calls]
        ELSE [resp |-> SubmissionResponse(201, TRUE, review.review_id,
                                          ai_response, "", body),
              table |-> saved.table, calls |-> calls]

\* The results the three generate_* calls can have for one submission.
UserResponses(ug, rating, text, GOut, OOut) ==
    {generate_user_response(ug, rating, text, g, o) : g \in GOut, o \in OOut}
Summaries(ug, rating, text, GOut, OOut) ==
    {generate_summary(ug, rating, text, g, o) : g \in GOut, o \in OOut}
RecommendedActions(ug, rating, text, GOut, OOut) ==
    {generate_recommended_actions(ug, rating, text, g, o) :
        g \in GOut, o \in OOut}

\* round(x, 2) of the quotient num / den, in hundredths: the nearest integer
\* to 100 * num / den, a tie going to the even one (Python's round)
RoundHundredths(num, den) ==
    LET q == (100 * num) \div den
        r == (100 * num) % den
    IN  IF 2 * r < den THEN q
        ELSE IF 2 * r > den THEN q + 1
        ELSE IF q % 2 = 0 THEN q ELSE q + 1

\* Fault variant of the low-rating count: ratings below 2 only.
LowRatings_Below2(reviews) ==
    Cardinality({i \in 1..Len(reviews) : reviews[i].rating < 2})

\* sum(1 for r in reviews if r.rating <= 2)
LowRatings(reviews) ==
    Cardinality({i \in 1..Len(reviews) : reviews[i].rating <= 2})

\* sum(1 for r in reviews if r.rating >= 4)
HighRatings(reviews) ==
    Cardinality({i \in 1..Len(reviews) : reviews[i].rating >= 4})

\* The 200 response of get_admin_reviews from the results of its three
\* queries. average_rating and the percentages are in hundredths.
AdminDashboardResponse(reviews, rating_distribution, avg_rating) ==
    LET total_count == Len(reviews)
        low_ratings == LowRatings(reviews)
        high_ratings == HighRatings(reviews)
    IN  [op |-> "get_admin_reviews", status |-> 200, request |-> NoId,
         body |->
           [reviews |-> [i \in 1..Len(reviews) |-> to_dict(reviews[i])],
            total_count |-> total_count,
            rating_distribution |-> rating_distribution,
            analytics |->
              [total_reviews |-> total_count,
               average_rating |->
                   IF avg_rating.null THEN 0
                   ELSE RoundHundredths(avg_rating.num, avg_rating.den),
               low_ratings_count |-> low_ratings,
               high_ratings_count |-> high_ratings,
               low_ratings_percentage |->
                   IF total_count > 0
                   THEN RoundHundredths(low_ratings * 100, total_count)
                   ELSE 0,
               high_ratings_percentage |->
                   IF total_count > 0
                   THEN RoundHundredths(high_ratings * 100, total_count)
                   ELSE 0]]]

\* What get_review answers for one identifier.
get_review_result(table, review_id) ==
    IF FirstById(table, review_id) = {}
    THEN [op |-> "get_review", status |-> 404, request |-> review_id,
          body |-> [error |-> "Review not found"]]
    ELSE [op |-> "get_review", status |-> 200, request |-> review_id,
          body |-> to_dict(CHOOSE r \in FirstById(table, review_id) : TRUE)]

\* ------------------------------------------------------------------ inputs

\* Request bodies: one per case of the validation, the valid ones covering
\* every rating and review texts that are short, padded and at the limit.
ValidBodies ==
    {DictBody(1, UserText(0, 5, 0)),
     DictBody(2, UserText(0, 1, 0)),
     DictBody(3, UserText(2, 5, 1)),
     DictBody(4, UserText(0, 250, 0)),
     DictBody(5, UserText(0, MAX_REVIEW_LENGTH, 0))}

InvalidBodies ==
    {DictBody(0, UserText(0, 5, 0)),
     DictBody(6, UserText(0, 5, 0)),
     DictBody(3, UserText(0, 0, 0)),
     DictBody(3, UserText(3, 0, 0)),
     DictBody(3, UserText(0, MAX_REVIEW_LENGTH + 1, 0)),
     DictBody(3, UserText(1, MAX_REVIEW_LENGTH - 1, 1)),
     Body("dict", TRUE, FALSE, 0, TRUE, UserText(0, 5, 0)),
     Body("dict", TRUE, TRUE, 3, FALSE, NoText),
     Body("nondict", TRUE, FALSE, 0, FALSE, NoText)}

EmptyBodies ==
    {Body("absent", FALSE, FALSE, 0, FALSE, NoText),
     Body("absent", TRUE, FALSE, 0, FALSE, NoText),
     Body("falsy", TRUE, FALSE, 0, FALSE, NoText)}

Bodies == ValidBodies \cup InvalidBodies \cup EmptyBodies

\* What a provider can do with a prompt: raise, reply with empty text, or
\* reply with a padded text longer than every cap.
Outcomes(provider) ==
    {Raises, Replies(Text(provider, 0, 0, 0)), Replies(Text(provider, 1, 600, 1))}

\* The orchestrator's inputs: replies that are empty, whitespace only, short,
\* padded, between the caps and above them; review texts around the length
\* of the excerpt the summary template takes.
Shapes == {<<0, 0, 0>>, <<3, 0, 0>>, <<0, 10, 0>>, <<2, 10, 1>>,
           <<0, 400, 0>>, <<1, 600, 1>>}
AllOutcomes(provider) ==
    {Raises} \cup {Replies(Text(provider, s[1], s[2], s[3])) : s \in Shapes}
ReviewTexts ==
    {UserText(0, 1, 0), UserText(0, 189, 0), UserText(0, 190, 0),
     UserText(0, MAX_REVIEW_LENGTH, 0)}

\* Identifiers a client may ask for: those the table can hold and one more.
RequestIds == 1..(MaxReviews + 1)

\* ----------------------------------------------------------------- actions

NoResponse == [op |-> "none", status |-> 0, request |-> NoId,
               body |-> [error |-> ""]]

AdminIdle == [pc |-> "idle", reviews |-> <<>>, rating_distribution |-> <<>>]

NoGeneration == [op |-> "none", rating |-> 0, review_text |-> NoText,
                 g |-> Raises, o |-> Raises, text |-> NoText, calls |-> <<>>]

\* A generate_* call that was never made.
NotCalled == [raised |-> FALSE, text |-> NoText, calls |-> <<>>]

\* After construction: the table is empty (init_db on a new database) and
\* use_gemini is whatever the configuration made it.
Init ==
    /\ use_gemini \in BOOLEAN
    /\ store = {}
    /\ resp = NoResponse
    /\ provider_calls = 0
    /\ issued = {}
    /\ admin = AdminIdle
    /\ gen = NoGeneration

\* The same, with the arguments of the next orchestrator call and what the
\* two providers will do with its prompt.
InitOrchestrator ==
    /\ use_gemini \in BOOLEAN
    /\ store = {}
    /\ resp = NoResponse
    /\ provider_calls = 0
    /\ issued = {}
    /\ admin = AdminIdle
    /\ \E rating \in MinRating..MaxRating, review_text \in ReviewTexts,
          g \in AllOutcomes("gemini"), o \in AllOutcomes("openrouter") :
           gen = [NoGeneration EXCEPT !.rating = rating,
                                      !.review_text = review_text,
                                      !.g = g, !.o = o]

\* GET /
index ==
    /\ resp' = [op |-> "index", status |-> 200, request |-> NoId,
                body |-> [status |-> "running"]]
    /\ provider_calls' = 0
    /\ UNCHANGED <<use_gemini, store, issued, admin, gen>>

\* GET /health
health_check ==
    /\ resp' = [op |-> "health_check", status |-> 200, request |-> NoId,
                body |-> [status |-> "healthy", database_connected |-> TRUE,
                          llm_available |-> TRUE]]
    /\ provider_calls' = 0
    /\ UNCHANGED <<use_gemini, store, issued, admin, gen>>

\* POST /api/submit-review with a body of Bs, the providers behaving as GOut
\* (Gemini) and OOut (OpenRouter) allow. A submission that passes validation
\* is taken only while the table holds fewer than room rows.
submit_review(Bs, GOut, OOut, room) ==
    \E body \in Bs : \E j \in get_json(body) :
        LET v == ReviewSubmissionRequest(body)
            generates == ~j.raised /\ ~j.none /\ body.kind # "falsy"
                             /\ ~v.raised
        IN  /\ generates => Cardinality(store) < room
            /\ \E ur \in (IF generates
                          THEN UserResponses(use_gemini, v.rating,
                                             v.review_text, GOut, OOut)
                          ELSE {NotCalled}) :
               \E sm \in (IF generates
                          THEN Summaries(use_gemini, v.rating,
                                         v.review_text, GOut, OOut)
                          ELSE {NotCalled}) :
               \E ra \in (IF generates
                          THEN RecommendedActions(use_gemini, v.rating,
                                                  v.review_text, GOut, OOut)
                          ELSE {NotCalled}) :
                   LET out == submit_review_result(store, body, j, ur, sm, ra)
                   IN  /\ store' = out.table
                       /\ resp' = out.resp
                       /\ provider_calls' = out.calls
                       /\ issued' = IF out.resp.status = 201
                                    THEN issued \cup {out.resp.body.review_id}
                                    ELSE issued
                       /\ UNCHANGED <<use_gemini, admin, gen>>

\* GET /api/admin/reviews/<review_id>
get_review ==
    \E review_id \in RequestIds :
        /\ resp' = get_review_result(store, review_id)
        /\ provider_calls' = 0
        /\ UNCHANGED <<use_gemini, store, issued, admin, gen>>

\* GET /api/admin/reviews with no other request running during it
get_admin_reviews ==
    /\ admin.pc = "idle"
    /\ resp' = AdminDashboardResponse(OrderByCreatedDesc(store),
                                      GroupByRating(store), AvgRating(store))
    /\ provider_calls' = 0
    /\ UNCHANGED <<use_gemini, store, issued, admin, gen>>

\* GET /api/admin/reviews, query by query: other requests may run in between.
admin_query_reviews ==
    /\ admin.pc = "idle"
    /\ admin' = [pc |-> "listed", reviews |-> OrderByCreatedDesc(store),
                 rating_distribution |-> <<>>]
    /\ UNCHANGED <<use_gemini, store, resp, provider_calls, issued, gen>>

admin_query_distribution ==
    /\ admin.pc = "listed"
    /\ admin' = [admin EXCEPT !.pc = "grouped",
                              !.rating_distribution = GroupByRating(store)]
    /\ UNCHANGED <<use_gemini, store, resp, provider_calls, issued, gen>>

admin_query_average ==
    /\ admin.pc = "grouped"
    /\ resp' = AdminDashboardResponse(admin.reviews, admin.rating_distribution,
                                      AvgRating(store))
    /\ provider_calls' = 0
    /\ admin' = AdminIdle
    /\ UNCHANGED <<use_gemini, store, issued, gen>>

\* One call of each generate_* method of the orchestrator, on the arguments
\* and provider behaviour held in gen.
Generation(op, r) ==
    [gen EXCEPT !.op = op, !.text = r.text, !.calls = r.calls]

call_generate_user_response ==
    /\ gen' = Generation("generate_user_response",
                         generate_user_response(use_gemini, gen.rating,
                                                gen.review_text, gen.g, gen.o))
    /\ UNCHANGED <<use_gemini, store, resp, provider_calls, issued, admin>>

call_generate_summary ==
    /\ gen' = Generation("generate_summary",
                         generate_summary(use_gemini, gen.rating,
                                          gen.review_text, gen.g, gen.o))
    /\ UNCHANGED <<use_gemini, store, resp, provider_calls, issued, admin>>

call_generate_recommended_actions ==
    /\ gen' = Generation("generate_recommended_actions",
                         generate_recommended_actions(use_gemini, gen.rating,
                                                      gen.review_text,
                                                      gen.g, gen.o))
    /\ UNCHANGED <<use_gemini, store, resp, provider_calls, issued, admin>>

\* ----------------------------------------------------------- specifications

\* Submissions as the store sees them: every body, with Gemini raising and
\* OpenRouter answering.
submit ==
    submit_review(Bodies, {Raises}, {Replies(Text("provider", 1, 600, 1))},
                  MaxReviews)

\* Submissions under every combination of provider outcomes.
submit_any ==
    submit_review(Bodies, Outcomes("provider"), Outcomes("provider"),
                  MaxSubmitted)

\* The five endpoints, one request at a time.
Next == index \/ health_check \/ submit \/ get_review \/ get_admin_reviews
Spec == Init /\ [][Next]_vars

\* POST /api/submit-review alone.
NextSubmit == submit_any
SpecSubmit == Init /\ [][NextSubmit]_vars

\* Submissions committing between the queries of a GET /api/admin/reviews.
NextConcurrent ==
    submit \/ admin_query_reviews \/ admin_query_distribution
        \/ admin_query_average
SpecConcurrent == Init /\ [][NextConcurrent]_vars

\* The orchestrator alone.
NextOrchestrator ==
    call_generate_user_response \/ call_generate_summary
        \/ call_generate_recommended_actions
SpecOrchestrator == InitOrchestrator /\ [][NextOrchestrator]_vars

\* ------------------------------------------------------------------ claims

\* A body the specification calls valid: an object with a rating in 1..5 and
\* a review text of 1..5000 characters that is non-empty after trimming.
IsValidBody(b) ==
    /\ b.kind = "dict" /\ b.has_rating /\ b.has_text
    /\ b.rating \in 1..5
    /\ Len_(b.review_text) \in 1..5000
    /\ b.review_text.body > 0

\* A body with both fields whose rating is outside 1..5 or whose text is
\* empty, whitespace only or longer than 5000 characters.
IsBadRatingOrText(b) ==
    /\ b.kind = "dict" /\ b.has_rating /\ b.has_text
    /\ \/ b.rating \notin 1..5
       \/ Len_(b.review_text) = 0
       \/ b.review_text.body = 0
       \/ Len_(b.review_text) > 5000

IsTemplate(t) ==
    t.kind \in {"ack_fallback", "summary_fallback", "actions_low",
                "actions_mid", "actions_high"}

\* C1: a POST /api/submit-review with a valid body is answered 201 with
\* success=true and the review_id of a row that this request added to the
\* table, whatever the two providers did with the three prompts.
C1_ValidSubmissionCreated ==
    [][(resp'.op = "submit_review" /\ IsValidBody(resp'.request)) =>
         /\ resp'.status = 201
         /\ resp'.body.success
         /\ resp'.body.review_id \notin Ids(store)
         /\ \E r \in store' :
               /\ r.review_id = resp'.body.review_id
               /\ store' = store \cup {r}]_vars

\* C1 witness: a valid submission answered 201 although every provider call
\* of the request failed (all three texts are the hardcoded templates).
C1_Witness ==
    /\ resp.op = "submit_review" /\ IsValidBody(resp.request)
    /\ resp.status = 201
    /\ resp.body.ai_response.kind = "ack_fallback"
    /\ \E r \in store :
          /\ r.review_id = resp.body.review_id
          /\ r.ai_summary.kind = "summary_fallback"
          /\ IsTemplate(r.ai_recommended_actions)

\* C2: a submission whose rating is outside 1..5 or whose text is empty,
\* whitespace only or longer than 5000 characters is answered 400 with
\* success=false, stores nothing and calls no provider.
C2_InvalidSubmissionRejected ==
    [][(resp'.op = "submit_review" /\ IsBadRatingOrText(resp'.request)) =>
         /\ resp'.status = 400
         /\ ~resp'.body.success
         /\ store' = store
         /\ provider_calls' = 0]_vars

\* C2 witness: a whitespace-only review text was rejected with 400.
C2_Witness ==
    /\ resp.op = "submit_review" /\ resp.status = 400
    /\ resp.request.kind = "dict" /\ resp.request.has_text
    /\ resp.request.rating \in 1..5
    /\ resp.request.review_text.body = 0
    /\ resp.request.review_text.lead > 0

\* C3: a submission without a body is answered 400 with the message
\* "No data provided", never 500.
C3_MissingBodyRejected ==
    (resp.op = "submit_review" /\ resp.request.kind = "absent") =>
        /\ resp.status = 400
        /\ resp.body.error = "No data provided"

\* C4: every stored review has a rating in 1..5 and a text that is trimmed,
\* non-empty and at most 5000 characters long.
C4_StoredReviewsValid ==
    \A r \in store :
        /\ r.rating \in 1..5
        /\ r.review_text.lead = 0 /\ r.review_text.trail = 0
        /\ r.review_text.body >= 1
        /\ Len_(r.review_text) <= 5000

\* C4 witness: a text sent with surrounding whitespace was stored trimmed.
C4_Witness ==
    /\ resp.op = "submit_review" /\ resp.status = 201
    /\ resp.request.review_text.lead > 0
    /\ \E r \in store :
          /\ r.review_id = resp.body.review_id
          /\ r.review_text = Strip(resp.request.review_text)

C6_GetReview ==
    resp.op = "get_review" =>
        /\ resp.request \notin Ids(store) => resp.status = 404
        /\ resp.request \in issued =>
              /\ resp.status = 200
              /\ \E r \in store :
                    /\ r.review_id = resp.request
                    /\ resp.body.review_id = r.review_id
                    /\ resp.body.rating = r.rating
                    /\ resp.body.review_text = r.review_text
                    /\ resp.body.ai_summary = r.ai_summary
                    /\ resp.body.ai_recommended_actions
                           = r.ai_recommended_actions
                    /\ resp.body.created_at = <<"isoformat", r.created_at>>

\* C6 witness: an issued identifier was fetched while other reviews exist.
C6_Witness ==
    /\ resp.op = "get_review" /\ resp.status = 200
    /\ resp.request \in issued
    /\ Cardinality(store) >= 2

\* x (in hundredths) is num / den rounded to 2 decimals.
IsRounded(x, num, den) ==
    LET d == x * den - 100 * num
    IN  2 * (IF d < 0 THEN -d ELSE d) <= den

\* The sum of the ratings of the rows of S, rating by rating up to k.
RECURSIVE SumByRating(_, _)
SumByRating(S, k) ==
    IF k = 0 THEN 0
    ELSE k * Cardinality({r \in S : r.rating = k}) + SumByRating(S, k - 1)

\* C7: with no submission in progress, the analytics of GET
\* /api/admin/reviews match the stored reviews: the total, the mean rating
\* rounded to 2 decimals (0 without reviews), the counts of ratings <= 2 and
\* >= 4, their percentages of the total rounded to 2 decimals (0 without
\* reviews), and the number of reviews per rating that occurs.
C7_AnalyticsMatchStore ==
    resp.op = "get_admin_reviews" =>
        LET a == resp.body.analytics
            n == Cardinality(store)
            low == Cardinality({r \in store : r.rating <= 2})
            high == Cardinality({r \in store : r.rating >= 4})
            dist == resp.body.rating_distribution
        IN  /\ resp.status = 200
            /\ a.total_reviews = n
            /\ a.low_ratings_count = low
            /\ a.high_ratings_count = high
            /\ IF n = 0
               THEN /\ a.average_rating = 0
                    /\ a.low_ratings_percentage = 0
                    /\ a.high_ratings_percentage = 0
               ELSE /\ IsRounded(a.average_rating, SumByRating(store, 5), n)
                    /\ IsRounded(a.low_ratings_percentage, 100 * low, n)
                    /\ IsRounded(a.high_ratings_percentage, 100 * high, n)
            /\ DOMAIN dist = {r.rating : r \in store}
            /\ \A k \in DOMAIN dist :
                   dist[k] = Cardinality({r \in store : r.rating = k})

\* C7 witness: a dashboard over three reviews, some low and some high, whose
\* mean and percentages need rounding.
C7_Witness ==
    /\ resp.op = "get_admin_reviews"
    /\ resp.body.analytics.total_reviews = 3
    /\ resp.body.analytics.low_ratings_count > 0
    /\ resp.body.analytics.high_ratings_count > 0
    /\ resp.body.analytics.average_rating % 100 # 0
    /\ resp.body.analytics.low_ratings_percentage % 100 # 0

\* The character cap of each generate_* method.
CapOf(op) ==
    IF op = "generate_summary" THEN 300 ELSE 500

\* A provider failed on a prompt: it raised, or its text was empty (nothing
\* left after trimming).
Failed(p) == p.raised \/ p.text.body = 0

\* The text a provider replied with, as the orchestrator hands it on:
\* trimmed and cut to the cap.
HandedOn(p, op) == Slice(Strip(p.text), CapOf(op))

\* The template of each method; for recommended actions, by rating tier.
TemplateKindOf(op, rating) ==
    IF op = "generate_user_response" THEN "ack_fallback"
    ELSE IF op = "generate_summary" THEN "summary_fallback"
    ELSE IF rating <= 2 THEN "actions_low"
    ELSE IF rating = 3 THEN "actions_mid"
    ELSE "actions_high"

LastCalled == gen.calls[Len(gen.calls)]

\* C8, as amended: with Gemini configured the stages are Gemini, OpenRouter,
\* template: OpenRouter is called exactly when Gemini raised or returned
\* empty text. Without Gemini configured OpenRouter is the only provider
\* called. The template (for recommended actions, the one of the rating tier)
\* is returned exactly when OpenRouter was called and raised; otherwise the
\* result is the trimmed, capped text of the provider called last.
C8_StagesAsConfigured ==
    gen.op # "none" =>
        /\ use_gemini =>
              /\ gen.calls \in {<<"gemini">>, <<"gemini", "openrouter">>}
              /\ (Len(gen.calls) = 2) <=> Failed(gen.g)
        /\ ~use_gemini => gen.calls = <<"openrouter">>
        /\ IsTemplate(gen.text) <=>
              (LastCalled = "openrouter" /\ gen.o.raised)
        /\ IsTemplate(gen.text) =>
              gen.text.kind = TemplateKindOf(gen.op, gen.rating)
        /\ ~IsTemplate(gen.text) =>
              gen.text = HandedOn(IF LastCalled = "gemini" THEN gen.g
                                  ELSE gen.o, gen.op)

\* C8 witness: Gemini returned whitespace only, OpenRouter raised, and the
\* recommended actions for a 3-star review are the middle-tier template.
C8_Witness ==
    /\ gen.op = "generate_recommended_actions" /\ gen.rating = 3
    /\ use_gemini
    /\ ~gen.g.raised /\ gen.g.text.lead > 0 /\ gen.g.text.body = 0
    /\ gen.calls = <<"gemini", "openrouter">>
    /\ gen.o.raised
    /\ gen.text.kind = "actions_mid"

\* C8, as stated: the stages are always primary (Gemini), secondary
\* (OpenRouter), template: the primary is tried first, the secondary is
\* called only after the primary raised or returned empty text, the template
\* is returned only after the secondary also failed, otherwise the result is
\* the text of the first provider that answered; the recommended-actions
\* template is chosen by rating tier.
C8_StagesInOrder ==
    gen.op # "none" =>
        /\ gen.calls[1] = "gemini"
        /\ (\E i \in 1..Len(gen.calls) : gen.calls[i] = "openrouter") =>
              (gen.calls = <<"gemini", "openrouter">> /\ Failed(gen.g))
        /\ IsTemplate(gen.text) =>
              /\ LastCalled = "openrouter" /\ Failed(gen.o)
              /\ gen.text.kind = TemplateKindOf(gen.op, gen.rating)
        /\ ~IsTemplate(gen.text) =>
              gen.text = HandedOn(IF LastCalled = "gemini" THEN gen.g
                                  ELSE gen.o, gen.op)

\* C9: the text the orchestrator returns is at most 500 characters for the
\* acknowledgement, 300 for the summary and 500 for the recommended actions,
\* whatever the providers did.
C9_WithinCaps ==
    gen.op # "none" => Len_(gen.text) <= CapOf(gen.op)

RECURSIVE SumOfCounts(_, _)
SumOfCounts(f, S) ==
    IF S = {} THEN 0
    ELSE LET k == CHOOSE x \in S : TRUE
         IN  f[k] + SumOfCounts(f, S \ {k})

RECURSIVE SumOfListed(_, _)
SumOfListed(items, n) ==
    IF n = 0 THEN 0 ELSE items[n].rating + SumOfListed(items, n - 1)

\* C10: every 200 response of GET /api/admin/reviews is consistent in
\* itself, also when submissions commit while it is computed: total_count is
\* the number of reviews listed, the rating_distribution counts sum to
\* total_count, and average_rating is the mean of the ratings listed.
C10_DashboardConsistent ==
    (resp.op = "get_admin_reviews" /\ resp.status = 200) =>
        LET b == resp.body
        IN  /\ b.total_count = Len(b.reviews)
            /\ SumOfCounts(b.rating_distribution,
                           DOMAIN b.rating_distribution) = b.total_count
            /\ IF b.total_count = 0
               THEN b.analytics.average_rating = 0
               ELSE IsRounded(b.analytics.average_rating,
                              SumOfListed(b.reviews, Len(b.reviews)),
                              b.total_count)

====
